---- MODULE Spec2Model ----
(***************************************************************************)
(* Credit-Risk-Analytics: the Altman Z-Score engine of financial_data.py,  *)
(* the freshness check, and the per-ticker analysis loop of app.py.        *)
(*                                                                         *)
(* Numbers.  The program computes with Python floats.  The model computes  *)
(* with exact rationals n/d (d > 0, lowest terms), plus the float NaN, so  *)
(* a score that the real-number formula puts exactly on a threshold is     *)
(* exactly on it here; binary rounding of the float result is abstracted.  *)
(* Python's None is the value NoneVal where a number is expected and the   *)
(* string PyNone where a string is expected.                               *)
(***************************************************************************)
EXTENDS Integers, Sequences, FiniteSets, TLC

VARIABLES
    data,        \* the dict handed to calculate_altman_z_score
    shock,       \* the revenue_shock_pct keyword of the call, or NoKwarg
    outcome,     \* what the call did: returned a tuple, or raised
    pc,          \* position of the driver
    balance_sheet,  \* the DataFrame handed to check_data_freshness
    now,         \* what datetime.now() reads, in ticks
    fresh,       \* the tuple check_data_freshness returned
    ticker_input,   \* the comma-separated entries of the text input
    tickers,     \* the list parsed from ticker_input
    idx,         \* 1-based position of the for loop in tickers
    revenue_shock,  \* the sidebar slider
    screen,      \* what the run has shown, per ticker, in order
    raw_value,   \* the value handed to normalize_units
    scale,       \* the scale handed to normalize_units
    answer       \* the provider's answer handed to get_financial_data

scoreVars == <<data, shock, outcome>>

freshVars == <<balance_sheet, now, fresh>>

appVars == <<ticker_input, tickers, idx, revenue_shock, screen>>

unitVars == <<raw_value, scale, answer>>

vars == <<data, shock, outcome, pc, balance_sheet, now, fresh,
          ticker_input, tickers, idx, revenue_shock, screen,
          raw_value, scale, answer>>

(***************************************************************************)
(* Python values                                                           *)
(***************************************************************************)
PyNone == "None"

NoneVal == [k |-> "none", n |-> 0, d |-> 1]

NaN == [k |-> "nan", n |-> 0, d |-> 1]

\* the marker of an arithmetic operation that raised (ZeroDivisionError, or
\* TypeError for an operand that is None)
ErrVal == [k |-> "err", n |-> 0, d |-> 1]

Abs(x) == IF x < 0 THEN -x ELSE x

RECURSIVE Gcd(_, _)
Gcd(a, b) == IF b = 0 THEN a ELSE Gcd(b, a % b)

\* the rational n/d in lowest terms with a positive denominator (d # 0)
Rat(n, d) ==
    LET g == Gcd(Abs(n), Abs(d))
        s == IF d < 0 THEN -1 ELSE 1
    IN  [k |-> "num", n |-> (s * n) \div g, d |-> (s * d) \div g]

Num(i) == Rat(i, 1)

IsNum(x) == x.k = "num"

\* an operand on which arithmetic raises, or after which it already has
Raises(x) == x.k \in {"err", "none"}

\* float / float: ZeroDivisionError on a zero divisor, NaN propagates
Div(x, y) ==
    IF Raises(x) \/ Raises(y) THEN ErrVal
    ELSE IF IsNum(y) /\ y.n = 0 THEN ErrVal
    ELSE IF x.k = "nan" \/ y.k = "nan" THEN NaN
    ELSE Rat(x.n * y.d, x.d * y.n)

\* float * float
Mul(x, y) ==
    IF Raises(x) \/ Raises(y) THEN ErrVal
    ELSE IF x.k = "nan" \/ y.k = "nan" THEN NaN
    ELSE Rat(x.n * y.n, x.d * y.d)

\* float + float, over the least common denominator
Add(x, y) ==
    IF Raises(x) \/ Raises(y) THEN ErrVal
    ELSE IF x.k = "nan" \/ y.k = "nan" THEN NaN
    ELSE LET g == Gcd(x.d, y.d)
         IN  Rat(x.n * (y.d \div g) + y.n * (x.d \div g), x.d * (y.d \div g))

\* x > y on floats: false when either side is NaN
Gt(x, y) == IsNum(x) /\ IsNum(y) /\ x.n * y.d > y.n * x.d

\* x == 0 : None == 0 and NaN == 0 are both False
EqZero(x) == IsNum(x) /\ x.n = 0

\* not x : None and 0.0 are falsy, every other float (NaN too) is truthy
Not(x) == x.k = "none" \/ EqZero(x)

\* x is None
IsNone(x) == x.k = "none"

(***************************************************************************)
(* The data dict.  isNone: the argument is None.  Otherwise hasMeta says   *)
(* whether the key '_metadata' is there, sector is metadata['sector'] or   *)
(* AbsentKey, and fields maps the metric keys that are there to values.    *)
(***************************************************************************)
AbsentKey == "<absent>"

FieldKeys == {"Total Assets", "Working Capital", "Retained Earnings", "EBIT",
              "Total Liabilities", "Market Value of Equity",
              "Book Value of Equity", "Total Revenue"}

\* (mutant) dict.get(key, 0): a key that is not there reads as zero
Get_DefaultZero(dict, key) == IF key \in DOMAIN dict THEN dict[key] ELSE Num(0)

\* dict.get(key): None for a key that is not there
Get(dict, key) == IF key \in DOMAIN dict THEN dict[key] ELSE NoneVal

\* data.get('_metadata', {}).get('sector', 'Unknown')
SectorOf(dt) ==
    IF dt.hasMeta /\ dt.sector # AbsentKey THEN dt.sector ELSE "Unknown"

\* not data : None, or a dict with no key at all
NoData(dt) == dt.isNone \/ (~dt.hasMeta /\ DOMAIN dt.fields = {})

\* (mutant) the list without its last entry
NON_MANUFACTURING_SECTORS_NoRealEstate ==
    {"Technology", "Consumer Cyclical", "Consumer Defensive",
     "Communication Services", "Financial Services", "Healthcare"}

NON_MANUFACTURING_SECTORS ==
    {"Technology", "Consumer Cyclical", "Consumer Defensive",
     "Communication Services", "Financial Services", "Healthcare",
     "Real Estate"}

\* a float literal p/q of the source
Lit(p, q) == Rat(p, q)

ZPP_LABEL == "Z'' (Non-Manufacturing)"

Z_LABEL == "Z (Manufacturing)"

\* (mutant) the Z'' thresholds with >= in place of >
RiskZDoublePrime_NonStrict(z_score) ==
    IF ~Gt(Lit(26, 10), z_score) /\ IsNum(z_score) THEN "Safe Zone"
    ELSE IF ~Gt(Lit(11, 10), z_score) /\ IsNum(z_score) THEN "Grey Zone"
    ELSE "Distress Zone"

\* the Z'' thresholds, lines 211-216
RiskZDoublePrime(z_score) ==
    IF Gt(z_score, Lit(26, 10)) THEN "Safe Zone"
    ELSE IF Gt(z_score, Lit(11, 10)) THEN "Grey Zone"
    ELSE "Distress Zone"

\* the Z thresholds, lines 234-239
RiskZ(z_score) ==
    IF Gt(z_score, Lit(30, 10)) THEN "Safe Zone"
    ELSE IF Gt(z_score, Lit(18, 10)) THEN "Grey Zone"
    ELSE "Distress Zone"

\* the Z'' branch, lines 196-216
ZDoublePrime(dt, A, B, C) ==
    LET bve == Get(dt.fields, "Book Value of Equity")
        total_liabilities == Get(dt.fields, "Total Liabilities")
    IN  IF IsNone(bve) \/ IsNone(total_liabilities) \/ EqZero(total_liabilities)
        THEN <<NoneVal, "Missing Book Value of Equity or Liabilities", PyNone>>
        ELSE LET D == Div(bve, total_liabilities)
                 z_score == Add(Add(Add(Mul(Lit(656, 100), A),
                                        Mul(Lit(326, 100), B)),
                                    Mul(Lit(672, 100), C)),
                                Mul(Lit(105, 100), D))
                 risk_category == RiskZDoublePrime(z_score)
             IN  <<z_score, risk_category, ZPP_LABEL>>

\* (mutant) the standard Z branch with the weights of A and B exchanged
ZStandard_WeightsSwapped(dt, total_assets, A, B, C) ==
    LET mve == Get(dt.fields, "Market Value of Equity")
        total_liabilities == Get(dt.fields, "Total Liabilities")
        sales == Get(dt.fields, "Total Revenue")
    IN  IF IsNone(mve) \/ IsNone(total_liabilities) \/ EqZero(total_liabilities)
        THEN <<NoneVal, "Missing MVE or Liabilities", PyNone>>
        ELSE IF IsNone(sales)
        THEN <<NoneVal, "Missing Sales", PyNone>>
        ELSE LET D == Div(mve, total_liabilities)
                 E == Div(sales, total_assets)
                 z_score == Add(Add(Add(Add(Mul(Lit(14, 10), A),
                                            Mul(Lit(12, 10), B)),
                                        Mul(Lit(33, 10), C)),
                                    Mul(Lit(6, 10), D)),
                                Mul(Lit(10, 10), E))
                 risk_category == RiskZ(z_score)
             IN  <<z_score, risk_category, Z_LABEL>>

\* the standard Z branch, lines 217-239
ZStandard(dt, total_assets, A, B, C) ==
    LET mve == Get(dt.fields, "Market Value of Equity")
        total_liabilities == Get(dt.fields, "Total Liabilities")
        sales == Get(dt.fields, "Total Revenue")
    IN  IF IsNone(mve) \/ IsNone(total_liabilities) \/ EqZero(total_liabilities)
        THEN <<NoneVal, "Missing MVE or Liabilities", PyNone>>
        ELSE IF IsNone(sales)
        THEN <<NoneVal, "Missing Sales", PyNone>>
        ELSE LET D == Div(mve, total_liabilities)
                 E == Div(sales, total_assets)
                 z_score == Add(Add(Add(Add(Mul(Lit(12, 10), A),
                                            Mul(Lit(14, 10), B)),
                                        Mul(Lit(33, 10), C)),
                                    Mul(Lit(6, 10), D)),
                                Mul(Lit(10, 10), E))
                 risk_category == RiskZ(z_score)
             IN  <<z_score, risk_category, Z_LABEL>>

\* sector in NON_MANUFACTURING_SECTORS, line 194
UseZDoublePrime(sector) == sector \in NON_MANUFACTURING_SECTORS

\* (mutant) the try block with the working_capital check ahead of the
\* total_assets check
ScoreBody_WorkingCapitalFirst(dt) ==
    LET sector == SectorOf(dt)
        total_assets == Get(dt.fields, "Total Assets")
        working_capital == Get(dt.fields, "Working Capital")
        retained_earnings == Get(dt.fields, "Retained Earnings")
        ebit == Get(dt.fields, "EBIT")
    IN  IF IsNone(working_capital)
        THEN <<NoneVal, "Missing Working Capital", PyNone>>
        ELSE IF Not(total_assets) \/ EqZero(total_assets)
        THEN <<NoneVal, "Missing Total Assets", PyNone>>
        ELSE IF IsNone(retained_earnings)
        THEN <<NoneVal, "Missing Retained Earnings", PyNone>>
        ELSE IF IsNone(ebit)
        THEN <<NoneVal, "Missing EBIT", PyNone>>
        ELSE LET A == Div(working_capital, total_assets)
                 B == Div(retained_earnings, total_assets)
                 C == Div(ebit, total_assets)
             IN  IF UseZDoublePrime(sector)
                 THEN ZDoublePrime(dt, A, B, C)
                 ELSE ZStandard(dt, total_assets, A, B, C)

\* the body of the try block, lines 169-241
ScoreBody(dt) ==
    LET sector == SectorOf(dt)
        total_assets == Get(dt.fields, "Total Assets")
        working_capital == Get(dt.fields, "Working Capital")
        retained_earnings == Get(dt.fields, "Retained Earnings")
        ebit == Get(dt.fields, "EBIT")
    IN  IF Not(total_assets) \/ EqZero(total_assets)
        THEN <<NoneVal, "Missing Total Assets", PyNone>>
        ELSE IF IsNone(working_capital)
        THEN <<NoneVal, "Missing Working Capital", PyNone>>
        ELSE IF IsNone(retained_earnings)
        THEN <<NoneVal, "Missing Retained Earnings", PyNone>>
        ELSE IF IsNone(ebit)
        THEN <<NoneVal, "Missing EBIT", PyNone>>
        ELSE LET A == Div(working_capital, total_assets)
                 B == Div(retained_earnings, total_assets)
                 C == Div(ebit, total_assets)
             IN  IF UseZDoublePrime(sector)
                 THEN ZDoublePrime(dt, A, B, C)
                 ELSE ZStandard(dt, total_assets, A, B, C)

\* calculate_altman_z_score(data): the early return, the try block, and the
\* except clause that turns a raised arithmetic error into an error label
calculate_altman_z_score(dt) ==
    IF NoData(dt) THEN <<NoneVal, "No Data", PyNone>>
    ELSE LET r == ScoreBody(dt)
         IN  IF r[1].k = "err"
             THEN <<NoneVal, "Calculation Error: <detail>", PyNone>>
             ELSE r

(***************************************************************************)
(* check_data_freshness.  Time is counted in ticks, TicksPerDay to the     *)
(* day, so that a datetime carries a time of day.  A column label is a     *)
(* pandas Timestamp (naive, timezone-aware, or NaT), a date string, or     *)
(* something pd.to_datetime rejects.                                       *)
(***************************************************************************)
TicksPerDay == 2

\* timedelta(days=18 * 30), line 52
STALE_DAYS == 18 * 30

NoDate == [isNone |-> TRUE, day |-> 0]

\* filing_date.strftime('%Y-%m-%d'): the calendar day, the time of day dropped
Strftime(t) == [isNone |-> FALSE, day |-> t \div TicksPerDay]

NoWarning == [kind |-> "none", date |-> NoDate]

Label(kind, t) == [kind |-> kind, t |-> t]

NoSheet == [isNone |-> TRUE, empty |-> TRUE, label |-> Label("none", 0)]

EmptySheet == [isNone |-> FALSE, empty |-> TRUE, label |-> Label("none", 0)]

Sheet(label) == [isNone |-> FALSE, empty |-> FALSE, label |-> label]

\* lines 47-50: to_pydatetime() of a Timestamp, else pd.to_datetime(label);
\* the kind "raised" stands for the exception of a rejected label
ToFilingDate(label) ==
    IF label.kind \in {"timestamp", "tz_timestamp", "nat"} THEN label
    ELSE IF label.kind = "string" THEN Label("timestamp", label.t)
    ELSE Label("raised", 0)

\* (mutant) filing_date <= stale_threshold
IsStale_NonStrict(filing_t, now_t) ==
    filing_t <= now_t - STALE_DAYS * TicksPerDay

\* lines 52-54: filing_date < datetime.now() - timedelta(days=18 * 30)
IsStale(filing_t, now_t) == filing_t < now_t - STALE_DAYS * TicksPerDay

\* check_data_freshness(balance_sheet), with datetime.now() = now_t.
\* Comparing a timezone-aware datetime with the naive threshold raises
\* TypeError; NaT compares False and its strftime raises ValueError; the
\* except clause of line 63 returns the parse-failure triple for both.
check_data_freshness(bs, now_t) ==
    IF bs.isNone \/ bs.empty
    THEN <<TRUE, NoDate, [kind |-> "no_data", date |-> NoDate]>>
    ELSE LET filing_date == ToFilingDate(bs.label)
         IN  IF filing_date.kind # "timestamp"
             THEN <<TRUE, NoDate, [kind |-> "could_not_determine", date |-> NoDate]>>
             ELSE LET is_stale == IsStale(filing_date.t, now_t)
                      date_str == Strftime(filing_date.t)
                      warning == IF is_stale
                                 THEN [kind |-> "stale", date |-> date_str]
                                 ELSE NoWarning
                  IN  <<is_stale, date_str, warning>>

NotChecked == <<>>

(***************************************************************************)
(* Calling the function.  Its signature, line 156, has the one parameter   *)
(* data; Python raises TypeError, before the body runs, for a keyword      *)
(* argument that names no parameter.                                       *)
(***************************************************************************)
PARAMETERS == {"data"}

NoKwarg == [given |-> FALSE, pct |-> 0]

Kwarg(s) == [given |-> TRUE, pct |-> s]

KeywordNames(sh) == IF sh.given THEN {"revenue_shock_pct"} ELSE {}

NotCalled == [raised |-> FALSE, exc |-> "", value |-> <<>>]

Returned(v) == [raised |-> FALSE, exc |-> "", value |-> v]

Raised(e) == [raised |-> TRUE, exc |-> e, value |-> <<>>]

\* calculate_altman_z_score(data, **keywords)
Call(dt, sh) ==
    IF KeywordNames(sh) \subseteq PARAMETERS
    THEN Returned(calculate_altman_z_score(dt))
    ELSE Raised("TypeError")

\* the variables of the unit and assembly runs where those do not run
UnitsIdle ==
    /\ raw_value = NoneVal
    /\ scale = "M"
    /\ answer = NoneVal

\* the application's variables where the application does not run
AppIdle ==
    /\ ticker_input = <<>>
    /\ tickers = <<>>
    /\ idx = 1
    /\ revenue_shock = 0
    /\ screen = <<>>
    /\ UnitsIdle

(***************************************************************************)
(* Inputs of the scoring engine                                            *)
(***************************************************************************)
MkFields(ta, wc, re, eb, tl, mve, bve, rev) ==
    [key \in FieldKeys |->
        CASE key = "Total Assets" -> ta
          [] key = "Working Capital" -> wc
          [] key = "Retained Earnings" -> re
          [] key = "EBIT" -> eb
          [] key = "Total Liabilities" -> tl
          [] key = "Market Value of Equity" -> mve
          [] key = "Book Value of Equity" -> bve
          [] key = "Total Revenue" -> rev]

Dict(meta, sec, fs) ==
    [isNone |-> FALSE, hasMeta |-> meta, sector |-> sec, fields |-> fs]

NoneData == [isNone |-> TRUE, hasMeta |-> FALSE, sector |-> AbsentKey,
             fields |-> [key \in {} |-> NoneVal]]

EmptyDict == Dict(FALSE, AbsentKey, [key \in {} |-> NoneVal])

\* the values each metric takes (None: the key is there with value None)
TotalAssetsVals == {NoneVal, NaN, Num(0), Num(100)}

WorkingCapitalVals == {NoneVal, Num(0), Num(20)}

RetainedEarningsVals == {NoneVal, Num(0), Num(-30), Num(30)}

EbitVals == {NoneVal, Num(0), Num(15)}

TotalLiabilitiesVals == {NoneVal, Num(0), Num(21), Num(40)}

MarketValueVals == {NoneVal, Num(0), Num(200)}

BookValueVals == {NoneVal, Num(22), Num(52)}

TotalRevenueVals == {NoneVal, NaN, Num(0), Num(150), Num(180)}

\* scenario 1 of the specification (sector Industrials), with a book value
Scenario1 == MkFields(Num(100), Num(20), Num(30), Num(15), Num(40), Num(200),
                      Num(20), Num(150))

\* scenario 2 of the specification (sector Technology)
Scenario2 == MkFields(Num(100), Num(10), Num(5), Num(8), Num(90), NoneVal,
                      Num(20), NoneVal)

Restrict(f, K) == [key \in K |-> f[key]]

\* dicts that lack some of the keys
PartialFields ==
    {Restrict(f, K) : f \in {Scenario1, Scenario2}, K \in SUBSET FieldKeys}

\* the sector values of the inputs: the sectors of the data provider, the
\* default 'Unknown', an empty string, and no 'sector' key at all
Sectors == {"Technology", "Consumer Cyclical", "Consumer Defensive",
            "Communication Services", "Financial Services", "Healthcare",
            "Real Estate", "Industrials", "Energy", "Utilities",
            "Basic Materials", "Unknown", "", AbsentKey}

\* None, the empty dict, and the dicts that lack keys, with every sector
\* value and without metadata
SparseInputs ==
    {NoneData, EmptyDict}
    \cup {Dict(TRUE, sec, fs) : sec \in Sectors, fs \in PartialFields}
    \cup {Dict(FALSE, AbsentKey, fs) : fs \in PartialFields \ {EmptyDict.fields}}

\* the input is a dict as get_financial_data assembles it: every key there,
\* every value one of the values above
IsAssembledInput(dt) ==
    \E sec \in {"Technology", "Real Estate", "Industrials", "Unknown"},
       ta \in TotalAssetsVals, wc \in WorkingCapitalVals,
       re \in RetainedEarningsVals, eb \in EbitVals,
       tl \in TotalLiabilitiesVals, mve \in MarketValueVals,
       bve \in BookValueVals, rev \in TotalRevenueVals :
        dt = Dict(TRUE, sec, MkFields(ta, wc, re, eb, tl, mve, bve, rev))

ShockChoices == {0, 50, 100}

(***************************************************************************)
(* The scoring engine on its own: one call on one input.                   *)
(***************************************************************************)
ScoreInit ==
    /\ \/ data \in SparseInputs
       \/ IsAssembledInput(data)
    /\ shock = NoKwarg
    /\ outcome = NotCalled
    /\ pc = "start"
    /\ balance_sheet = NoSheet
    /\ now = 0
    /\ fresh = NotChecked
    /\ AppIdle

\* z, risk, formula = calculate_altman_z_score(data)   (line 267)
CallDirect ==
    /\ pc = "start"
    /\ shock' = NoKwarg
    /\ outcome' = Call(data, NoKwarg)
    /\ pc' = "called"
    /\ UNCHANGED <<unitVars, data, freshVars, appVars>>

\* fd.calculate_altman_z_score(data, revenue_shock_pct=revenue_shock)
\* (app.py, lines 197-199)
CallWithShock ==
    /\ pc = "start"
    /\ \E s \in ShockChoices :
        /\ shock' = Kwarg(s)
        /\ outcome' = Call(data, Kwarg(s))
    /\ pc' = "called"
    /\ UNCHANGED <<unitVars, data, freshVars, appVars>>

ScoreNext == CallDirect \/ CallWithShock

SpecScore == ScoreInit /\ [][ScoreNext]_vars

(***************************************************************************)
(* The freshness check on its own: one call on one sheet at one instant.   *)
(***************************************************************************)
MaxNowOffset == 3

MaxSkew == 4

\* an instant some 55 years after the origin of the tick count
Epoch == 20000 * TicksPerDay

NowChoices == {Epoch + i : i \in 0..MaxNowOffset}

\* filing instants on both sides of every threshold now - 540 days
FilingChoices ==
    {Epoch - STALE_DAYS * TicksPerDay + j : j \in (0 - MaxSkew)..(MaxNowOffset + MaxSkew)}

SheetInputs ==
    {NoSheet, EmptySheet}
    \cup {Sheet(Label(kind, t)) :
            kind \in {"timestamp", "string", "tz_timestamp"}, t \in FilingChoices}
    \cup {Sheet(Label("nat", 0)), Sheet(Label("garbage", 0))}

FreshInit ==
    /\ balance_sheet \in SheetInputs
    /\ now \in NowChoices
    /\ fresh = NotChecked
    /\ data = NoneData
    /\ shock = NoKwarg
    /\ outcome = NotCalled
    /\ pc = "start"
    /\ AppIdle

\* is_stale, filing_date, freshness_warning = check_data_freshness(bs)
CheckFreshness ==
    /\ pc = "start"
    /\ fresh' = check_data_freshness(balance_sheet, now)
    /\ pc' = "checked"
    /\ UNCHANGED <<unitVars, scoreVars, balance_sheet, now, appVars>>

FreshNext == CheckFreshness

SpecFresh == FreshInit /\ [][FreshNext]_vars

(***************************************************************************)
(* get_financial_data.  The provider's answer for a ticker: raises says    *)
(* that fetching raised; otherwise bs is the balance sheet (emptiness and  *)
(* first column label), bs_lines and fin_lines map the line items of the   *)
(* most recent column to raw values in currency units, and info_sector,    *)
(* info_marketCap are info['sector'] (or AbsentKey) and info['marketCap']. *)
(***************************************************************************)
\* float - float
Sub(x, y) == Add(x, Mul(Num(-1), y))

\* a or b : b when a is None or zero
Or(a, b) == IF Not(a) THEN b ELSE a

\* values that are no float: a string that spells no number, an object
\* without a float conversion, an int beyond the range of a float
Text == [k |-> "text", n |-> 0, d |-> 1]

Object == [k |-> "object", n |-> 0, d |-> 1]

BigInt == [k |-> "bigint", n |-> 0, d |-> 1]

\* the exception float(value) raises, "" when it raises none
FloatRaises(value) ==
    CASE value.k = "text" -> "ValueError"
      [] value.k = "object" -> "TypeError"
      [] value.k = "bigint" -> "OverflowError"
      [] OTHER -> ""

\* normalize_units(value, scale), lines 20-26; the except clause of line 25
\* returns None for TypeError and ValueError, any other exception
\* propagates (ErrVal)
normalize_units(value, sc) ==
    IF IsNone(value) THEN NoneVal
    ELSE LET divisor == IF sc = "M" THEN 1000000 ELSE 1000000000
         IN  IF FloatRaises(value) \in {"TypeError", "ValueError"} THEN NoneVal
             ELSE IF FloatRaises(value) # "" THEN ErrVal
             ELSE Div(value, Num(divisor))

\* info.get('sector', 'Unknown')
InfoSector(resp) ==
    IF resp.info_sector = AbsentKey THEN "Unknown" ELSE resp.info_sector

\* the dict of lines 106-147
AssembleData(resp) ==
    LET recent_bs == resp.bs_lines
        recent_fin == resp.fin_lines
        tca == Get(recent_bs, "Total Current Assets")
        tcl == Get(recent_bs, "Total Current Liabilities")
        working_capital ==
            IF ~IsNone(tca) /\ ~IsNone(tcl)
            THEN normalize_units(Sub(tca, tcl), "M")
            ELSE normalize_units(Get(recent_bs, "Working Capital"), "M")
        tl == Or(Get(recent_bs, "Total Liabilities Net Minority Interest"),
                 Get(recent_bs, "Total Liabilities"))
        stockholders_equity ==
            Or(Get(recent_bs, "Stockholders Equity"),
               Get(recent_bs, "Total Equity Gross Minority Interest"))
    IN  Dict(TRUE, InfoSector(resp),
             MkFields(normalize_units(Get(recent_bs, "Total Assets"), "M"),
                      working_capital,
                      normalize_units(Get(recent_bs, "Retained Earnings"), "M"),
                      normalize_units(Get(recent_fin, "EBIT"), "M"),
                      normalize_units(tl, "M"),
                      normalize_units(resp.info_marketCap, "M"),
                      normalize_units(stockholders_equity, "M"),
                      normalize_units(Get(recent_fin, "Total Revenue"), "M")))

\* get_financial_data(ticker): None when fetching raised (line 151) or a
\* table is empty (line 96), else the assembled dict
get_financial_data(resp) ==
    IF resp.raises THEN NoneData
    ELSE IF resp.bs.empty \/ resp.fin_empty THEN NoneData
    ELSE IF \E key \in FieldKeys : AssembleData(resp).fields[key] = ErrVal
    THEN NoneData
    ELSE AssembleData(resp)

(***************************************************************************)
(* Provider answers of the application runs                                *)
(***************************************************************************)
\* a raw statement value of m million currency units
Millions(m) == Num(m * 1000000)

Lines(ta, tca, tcl, re, tl, se) ==
    [line \in {"Total Assets", "Total Current Assets",
               "Total Current Liabilities", "Retained Earnings",
               "Total Liabilities Net Minority Interest", "Stockholders Equity"} |->
        CASE line = "Total Assets" -> ta
          [] line = "Total Current Assets" -> tca
          [] line = "Total Current Liabilities" -> tcl
          [] line = "Retained Earnings" -> re
          [] line = "Total Liabilities Net Minority Interest" -> tl
          [] line = "Stockholders Equity" -> se]

FinLines(ebit, rev) ==
    [line \in {"EBIT", "Total Revenue"} |->
        IF line = "EBIT" THEN ebit ELSE rev]

NoLines == [line \in {} |-> NoneVal]

Answer(sec, t, bsl) ==
    [raises |-> FALSE, bs |-> Sheet(Label("timestamp", t)), bs_lines |-> bsl,
     fin_empty |-> FALSE, fin_lines |-> FinLines(Millions(15), Millions(150)),
     info_sector |-> sec, info_marketCap |-> Millions(200)]

\* the statements of scenario 1, in currency units
ScenarioLines == Lines(Millions(100), Millions(50), Millions(30), Millions(30),
                       Millions(40), Millions(20))

\* the same statements with Total Assets reported as NaN and as zero
NaNAssetsLines == [ScenarioLines EXCEPT !["Total Assets"] = NaN]

ZeroAssetsLines == [ScenarioLines EXCEPT !["Total Assets"] = Num(0)]

Failure ==
    [raises |-> TRUE, bs |-> NoSheet, bs_lines |-> NoLines, fin_empty |-> TRUE,
     fin_lines |-> NoLines, info_sector |-> AbsentKey, info_marketCap |-> NoneVal]

ProviderAnswers ==
    {Failure,
     [Failure EXCEPT !.raises = FALSE, !.bs = EmptySheet],
     [Answer("Industrials", Epoch, ScenarioLines) EXCEPT !.fin_empty = TRUE,
                                                         !.fin_lines = NoLines]}
    \cup {Answer(sec, t, bsl) :
            sec \in {"Industrials", "Technology", AbsentKey},
            t \in {Epoch, Epoch - (STALE_DAYS + 1) * TicksPerDay},
            bsl \in {ScenarioLines, NaNAssetsLines, ZeroAssetsLines}}

(***************************************************************************)
(* The application: the Analyze button and the loop over the tickers       *)
(* (app.py, lines 171-304).                                                *)
(***************************************************************************)
MaxTickers == 3

\* what the user may type between two commas
Entries == {"aapl", " CAT ", " "}

\* t.strip().upper()
StripUpper(entry) ==
    CASE entry = "aapl" -> "AAPL"
      [] entry = " CAT " -> "CAT"
      [] entry = " " -> ""

RECURSIVE ParseTickers(_)
\* [t.strip().upper() for t in ticker_input.split(",") if t.strip()]
ParseTickers(entries) ==
    IF entries = <<>> THEN <<>>
    ELSE LET t == StripUpper(Head(entries))
         IN  IF t = "" THEN ParseTickers(Tail(entries))
             ELSE <<t>> \o ParseTickers(Tail(entries))

SeqsUpTo(S, n) == UNION {[1..m -> S] : m \in 0..n}

Init ==
    /\ ticker_input \in SeqsUpTo(Entries, MaxTickers)
    /\ revenue_shock \in {0, 25, 50}
    /\ now = Epoch
    /\ tickers = <<>>
    /\ idx = 1
    /\ screen = <<>>
    /\ data = NoneData
    /\ shock = NoKwarg
    /\ outcome = NotCalled
    /\ balance_sheet = NoSheet
    /\ fresh = NotChecked
    /\ pc = "idle"
    /\ UnitsIdle

Show(ticker, what) == Append(screen, <<ticker, what>>)

\* the position after the body of the loop ran for tickers[idx]
NextTicker == IF idx < Len(tickers) THEN "fetch" ELSE "done"

\* if st.button("Analyze"): lines 177-183
Analyze ==
    /\ pc = "idle"
    /\ tickers' = ParseTickers(ticker_input)
    /\ IF tickers' = <<>>
       THEN /\ screen' = Show("", "Please enter at least one ticker.")
            /\ pc' = "done"
       ELSE /\ screen' = screen
            /\ pc' = "fetch"
    /\ UNCHANGED <<unitVars, scoreVars, freshVars, ticker_input, idx, revenue_shock>>

\* data = fd.get_financial_data(ticker), line 188, for some provider answer
Fetch ==
    /\ pc = "fetch"
    /\ \E resp \in ProviderAnswers :
        /\ data' = get_financial_data(resp)
        /\ balance_sheet' = resp.bs
        /\ fresh' = IF get_financial_data(resp).isNone THEN NotChecked
                    ELSE check_data_freshness(resp.bs, now)
    /\ pc' = "fetched"
    /\ UNCHANGED <<unitVars, shock, outcome, now, appVars>>

\* if not data: st.error(...); continue     (lines 190-192)
SkipTicker ==
    /\ pc = "fetched"
    /\ NoData(data)
    /\ screen' = Show(tickers[idx], "Could not fetch financial data")
    /\ idx' = idx + 1
    /\ pc' = NextTicker
    /\ UNCHANGED <<unitVars, scoreVars, freshVars, ticker_input, tickers, revenue_shock>>

\* lines 194-304: the call of the engine with the slider's value and the
\* unpacking of its result into four names; an exception of either ends the
\* script run, the exception on the screen; otherwise the assessment of the
\* ticker is rendered and the loop goes on
ScoreTicker ==
    /\ pc = "fetched"
    /\ ~NoData(data)
    /\ shock' = Kwarg(revenue_shock)
    /\ outcome' = Call(data, Kwarg(revenue_shock))
    /\ IF outcome'.raised \/ Len(outcome'.value) # 4
       THEN /\ screen' = Show(tickers[idx], IF outcome'.raised
                                            THEN outcome'.exc ELSE "ValueError")
            /\ pc' = "aborted"
            /\ idx' = idx
       ELSE /\ screen' = Show(tickers[idx], outcome'.value[2])
            /\ pc' = NextTicker
            /\ idx' = idx + 1
    /\ UNCHANGED <<unitVars, data, freshVars, ticker_input, tickers, revenue_shock>>

Next == Analyze \/ Fetch \/ SkipTicker \/ ScoreTicker

Spec == Init /\ [][Next]_vars

(***************************************************************************)
(* get_financial_data on its own: one call on one answer of the provider.  *)
(***************************************************************************)
\* the marker of a line item the balance sheet does not have
AbsentLine == [k |-> "absent", n |-> 0, d |-> 1]

SourceLines == {"Total Current Assets", "Total Current Liabilities",
                "Working Capital", "Total Liabilities Net Minority Interest",
                "Total Liabilities", "Stockholders Equity",
                "Total Equity Gross Minority Interest"}

\* a balance sheet with Total Assets, Retained Earnings and those of the
\* seven source lines that are not marked absent
SheetLines(tca, tcl, wc, tlnmi, tl, se, teg) ==
    LET val(line) ==
            CASE line = "Total Current Assets" -> tca
              [] line = "Total Current Liabilities" -> tcl
              [] line = "Working Capital" -> wc
              [] line = "Total Liabilities Net Minority Interest" -> tlnmi
              [] line = "Total Liabilities" -> tl
              [] line = "Stockholders Equity" -> se
              [] line = "Total Equity Gross Minority Interest" -> teg
              [] line = "Total Assets" -> Millions(100)
              [] line = "Retained Earnings" -> Millions(30)
    IN  [line \in {l \in SourceLines : val(l) # AbsentLine}
                    \cup {"Total Assets", "Retained Earnings"} |-> val(line)]

\* the answer is one for a sector, a market capitalisation and a choice of
\* each of the seven source lines
IsAssemblyAnswer(resp) ==
    \E tca \in {AbsentLine, NaN, Num(0), Millions(50)},
       tcl \in {AbsentLine, Millions(30)},
       wc \in {AbsentLine, Millions(7)},
       tlnmi \in {AbsentLine, NaN, Num(0), Millions(40)},
       tl \in {AbsentLine, Millions(45)},
       se \in {AbsentLine, Num(0), Millions(20)},
       teg \in {AbsentLine, Millions(25)},
       cap \in {NoneVal, BigInt, Millions(200)} :
        resp = [Answer("Technology", Epoch,
                       SheetLines(tca, tcl, wc, tlnmi, tl, se, teg))
                   EXCEPT !.info_marketCap = cap]

AssemblyInit ==
    /\ \/ answer \in ProviderAnswers
       \/ IsAssemblyAnswer(answer)
    /\ raw_value = NoneVal
    /\ scale = "M"
    /\ data = NoneData
    /\ shock = NoKwarg
    /\ outcome = NotCalled
    /\ balance_sheet = NoSheet
    /\ now = Epoch
    /\ fresh = NotChecked
    /\ ticker_input = <<>>
    /\ tickers = <<>>
    /\ idx = 1
    /\ revenue_shock = 0
    /\ screen = <<>>
    /\ pc = "start_assembly"

\* data = get_financial_data(ticker), line 253, on the provider's answer
Assemble ==
    /\ pc = "start_assembly"
    /\ data' = get_financial_data(answer)
    /\ balance_sheet' = answer.bs
    /\ fresh' = IF get_financial_data(answer).isNone THEN NotChecked
                ELSE check_data_freshness(answer.bs, now)
    /\ pc' = "assembled"
    /\ UNCHANGED <<unitVars, shock, outcome, now, appVars>>

AssemblyNext == Assemble

SpecFetch == AssemblyInit /\ [][AssemblyNext]_vars

(***************************************************************************)
(* normalize_units on its own: one call on one value and one scale.        *)
(***************************************************************************)
MaxRaw == 24

\* raw amounts in steps of a quarter of a million currency units
RawChoices ==
    {NoneVal, NaN, Text, Object, BigInt}
    \cup {Num(i * 250000) : i \in (0 - MaxRaw)..MaxRaw}

NormInit ==
    /\ raw_value \in RawChoices
    /\ scale \in {"M", "B"}
    /\ answer = NoneVal
    /\ data = NoneData
    /\ shock = NoKwarg
    /\ outcome = NotCalled
    /\ balance_sheet = NoSheet
    /\ now = 0
    /\ fresh = NotChecked
    /\ ticker_input = <<>>
    /\ tickers = <<>>
    /\ idx = 1
    /\ revenue_shock = 0
    /\ screen = <<>>
    /\ pc = "start_units"

\* normalize_units(value, scale): what it returns, or the exception that
\* leaves it
NormalizeUnits ==
    /\ pc = "start_units"
    /\ outcome' = IF normalize_units(raw_value, scale) = ErrVal
                  THEN Raised(FloatRaises(raw_value))
                  ELSE Returned(<<normalize_units(raw_value, scale)>>)
    /\ pc' = "normalized"
    /\ UNCHANGED <<unitVars, data, shock, freshVars, appVars>>

NormNext == NormalizeUnits

SpecNorm == NormInit /\ [][NormNext]_vars

(***************************************************************************)
(* Properties of the scoring engine (SpecScore)                            *)
(***************************************************************************)
\* the call returned: its tuple is outcome.value
HasResult == pc = "called" /\ ~outcome.raised

z_of == outcome.value[1]

risk_of == outcome.value[2]

formula_of == outcome.value[3]

Zones == {"Safe Zone", "Grey Zone", "Distress Zone"}

\* the metric is there: its key is in the dict and its value is not None
Present(key) == key \in DOMAIN data.fields /\ data.fields[key] # NoneVal

\* the metric's value, an integer number of millions in every input
F(key) == data.fields[key].n

IsNaNField(key) == data.fields[key] = NaN

\* the sector the snapshot names is one of the seven of the claim
SectorIsNonManufacturing ==
    /\ ~data.isNone
    /\ data.hasMeta
    /\ data.sector \in {"Technology", "Consumer Cyclical", "Consumer Defensive",
                        "Communication Services", "Financial Services",
                        "Healthcare", "Real Estate"}

\* C1: the Z'' formula is selected exactly when the sector is one of the seven
\* non-manufacturing sectors, the Z formula for every other sector, an absent
\* and an 'Unknown' one included: a produced score carries the label of its
\* sector's formula, and a formula-specific error label is that formula's.
C1_FormulaBySector ==
    HasResult =>
        /\ z_of # NoneVal =>
              formula_of = IF SectorIsNonManufacturing
                           THEN "Z'' (Non-Manufacturing)"
                           ELSE "Z (Manufacturing)"
        /\ risk_of = "Missing Book Value of Equity or Liabilities"
              => SectorIsNonManufacturing
        /\ risk_of \in {"Missing MVE or Liabilities", "Missing Sales"}
              => ~SectorIsNonManufacturing

C1_Witness ==
    /\ HasResult
    /\ data.hasMeta /\ data.sector = "Real Estate"
    /\ z_of # NoneVal
    /\ formula_of = "Z'' (Non-Manufacturing)"

CommonKeys == <<"Total Assets", "Working Capital", "Retained Earnings", "EBIT">>

CommonLabels == <<"Missing Total Assets", "Missing Working Capital",
                  "Missing Retained Earnings", "Missing EBIT">>

\* the check of the i-th common field fails
FailsCheck(i) ==
    \/ ~Present(CommonKeys[i])
    \/ i = 1 /\ data.fields["Total Assets"] = Num(0)

\* C2: on a snapshot (a dict with at least one key) the checks run in the
\* order total_assets, working_capital, retained_earnings, ebit, then the
\* formula-specific one; the result is (None, label of the FIRST failing
\* check, None), so a zero or absent total_assets always gives "Missing
\* Total Assets".
C2_FirstFailingCheck ==
    (HasResult /\ ~NoData(data)) =>
        /\ \A i \in 1..4 :
              (FailsCheck(i) /\ \A j \in 1..(i - 1) : ~FailsCheck(j))
                  => outcome.value = <<NoneVal, CommonLabels[i], PyNone>>
        /\ (\A i \in 1..4 : ~FailsCheck(i))
              => \A i \in 1..4 : risk_of # CommonLabels[i]

C2_Witness ==
    /\ HasResult
    /\ ~NoData(data)
    /\ ~Present("Total Assets") /\ ~Present("Working Capital")
    /\ outcome.value = <<NoneVal, "Missing Total Assets", PyNone>>

\* one of the metrics is NaN
AnyNaN(keys) == \E key \in keys : IsNaNField(key)

\* C3: a produced score is the weighted sum of the ratios:
\* Z'' = 6.56 WC/TA + 3.26 RE/TA + 6.72 EBIT/TA + 1.05 BVE/TL, and
\* Z = 1.2 WC/TA + 1.4 RE/TA + 3.3 EBIT/TA + 0.6 MVE/TL + 1.0 REV/TA
\* (NaN when an operand is NaN); scenario 1 gives 5.655 and Safe Zone.
C3_WeightedSum ==
    (HasResult /\ z_of # NoneVal) =>
        /\ formula_of = "Z'' (Non-Manufacturing)" =>
              IF AnyNaN({"Total Assets", "Working Capital", "Retained Earnings",
                         "EBIT", "Total Liabilities", "Book Value of Equity"})
              THEN z_of = NaN
              ELSE z_of = Rat((656 * F("Working Capital")
                                 + 326 * F("Retained Earnings")
                                 + 672 * F("EBIT")) * F("Total Liabilities")
                              + 105 * F("Book Value of Equity") * F("Total Assets"),
                              100 * F("Total Assets") * F("Total Liabilities"))
        /\ formula_of = "Z (Manufacturing)" =>
              IF AnyNaN({"Total Assets", "Working Capital", "Retained Earnings",
                         "EBIT", "Total Liabilities", "Market Value of Equity",
                         "Total Revenue"})
              THEN z_of = NaN
              ELSE z_of = Rat((12 * F("Working Capital")
                                 + 14 * F("Retained Earnings")
                                 + 33 * F("EBIT")
                                 + 10 * F("Total Revenue")) * F("Total Liabilities")
                              + 6 * F("Market Value of Equity") * F("Total Assets"),
                              10 * F("Total Assets") * F("Total Liabilities"))
        /\ (data.hasMeta /\ data.sector = "Industrials" /\ data.fields = Scenario1)
              => (z_of = Rat(5655, 1000) /\ risk_of = "Safe Zone")

C3_Witness ==
    /\ HasResult
    /\ data.hasMeta /\ data.sector = "Industrials" /\ data.fields = Scenario1
    /\ outcome.value = <<Rat(5655, 1000), "Safe Zone", "Z (Manufacturing)">>

\* 10 * z > t, for a score z = n/d (d > 0); false for NaN
Above(z, t) == z.k = "num" /\ 10 * z.n > t * z.d

\* C4: the zone of a produced score comes from strict thresholds taken high to
\* low: Z'' above 2.6 Safe, else above 1.1 Grey, else Distress; Z above 3.0
\* Safe, else above 1.8 Grey, else Distress.  A score equal to 2.6 or 3.0 is
\* Grey and one equal to 1.1 or 1.8 is Distress.
C4_StrictThresholds ==
    (HasResult /\ z_of # NoneVal) =>
        /\ formula_of = "Z'' (Non-Manufacturing)" =>
              risk_of = IF Above(z_of, 26) THEN "Safe Zone"
                        ELSE IF Above(z_of, 11) THEN "Grey Zone"
                        ELSE "Distress Zone"
        /\ formula_of = "Z (Manufacturing)" =>
              risk_of = IF Above(z_of, 30) THEN "Safe Zone"
                        ELSE IF Above(z_of, 18) THEN "Grey Zone"
                        ELSE "Distress Zone"

C4_Witness ==
    /\ HasResult
    /\ outcome.value = <<Rat(26, 10), "Grey Zone", "Z'' (Non-Manufacturing)">>

\* the fields the formula of the snapshot's sector needs
RequiredKeys ==
    {"Total Assets", "Working Capital", "Retained Earnings", "EBIT",
     "Total Liabilities"}
    \cup (IF SectorIsNonManufacturing
          THEN {"Book Value of Equity"}
          ELSE {"Market Value of Equity", "Total Revenue"})

Scorable ==
    /\ ~data.isNone
    /\ \A key \in RequiredKeys : Present(key)
    /\ data.fields["Total Assets"] # Num(0)
    /\ data.fields["Total Liabilities"] # Num(0)

\* C5: for any input, the score is non-null exactly when every field the
\* selected formula needs is there (total_assets and total_liabilities not
\* zero); with a score the category is one of the three zones and the formula
\* one of the two labels; without one the formula is None and the category is
\* an error label, none of the zones.  An absent field never counts as zero.
C5_ResultShape ==
    HasResult =>
        /\ Len(outcome.value) = 3
        /\ (z_of # NoneVal) <=> Scorable
        /\ z_of # NoneVal =>
              /\ risk_of \in Zones
              /\ formula_of \in {"Z (Manufacturing)", "Z'' (Non-Manufacturing)"}
        /\ z_of = NoneVal =>
              /\ formula_of = PyNone
              /\ risk_of \notin Zones
              /\ risk_of \in {"No Data", "Missing Total Assets",
                              "Missing Working Capital",
                              "Missing Retained Earnings", "Missing EBIT",
                              "Missing Book Value of Equity or Liabilities",
                              "Missing MVE or Liabilities", "Missing Sales"}

C5_Witness ==
    /\ HasResult
    /\ ~data.isNone
    /\ "EBIT" \notin DOMAIN data.fields
    /\ \A key \in RequiredKeys \ {"EBIT"} : Present(key)
    /\ outcome.value = <<NoneVal, "Missing EBIT", PyNone>>

\* the snapshot with total_revenue scaled by (1 - s/100)
WithRevenueShock(dt, s) ==
    IF dt.isNone \/ "Total Revenue" \notin DOMAIN dt.fields
       \/ ~IsNum(dt.fields["Total Revenue"])
    THEN dt
    ELSE [dt EXCEPT !.fields["Total Revenue"] = Mul(@, Rat(100 - s, 100))]

\* C6: the engine takes an optional revenue-shock percentage: with s = 0 the
\* output is that of the call without it, and with s the output is the
\* unshocked computation on the snapshot whose total_revenue is scaled by
\* (1 - s/100); scenario 1 with s = 50 scores 4.905, Safe Zone.
C6_RevenueShock ==
    (pc = "called" /\ shock.given) =>
        /\ ~outcome.raised
        /\ shock.pct = 0 => outcome = Returned(calculate_altman_z_score(data))
        /\ SubSeq(outcome.value, 1, 3)
              = calculate_altman_z_score(WithRevenueShock(data, shock.pct))
        /\ (data.hasMeta /\ data.sector = "Industrials"
              /\ data.fields = Scenario1 /\ shock.pct = 50)
              => (z_of = Rat(4905, 1000) /\ risk_of = "Safe Zone")

\* the weight * ratio terms of the claim, keyed X1..X5 (no X5 for Z'')
Term(w, q, key, over) == Mul(Rat(w, q), Div(data.fields[key], data.fields[over]))

ExpectedContributions ==
    IF SectorIsNonManufacturing
    THEN [X1 |-> Term(656, 100, "Working Capital", "Total Assets"),
          X2 |-> Term(326, 100, "Retained Earnings", "Total Assets"),
          X3 |-> Term(672, 100, "EBIT", "Total Assets"),
          X4 |-> Term(105, 100, "Book Value of Equity", "Total Liabilities")]
    ELSE [X1 |-> Term(12, 10, "Working Capital", "Total Assets"),
          X2 |-> Term(14, 10, "Retained Earnings", "Total Assets"),
          X3 |-> Term(33, 10, "EBIT", "Total Assets"),
          X4 |-> Term(6, 10, "Market Value of Equity", "Total Liabilities"),
          X5 |-> Term(10, 10, "Total Revenue", "Total Assets")]

\* C7: the engine returns four values (z_score, risk_cat, formula,
\* contributions), and with a score the fourth is the mapping of the factor
\* keys to the weight * ratio terms, without X5 for the Z'' formula.
C7_Contributions ==
    pc = "called" =>
        /\ ~outcome.raised
        /\ Len(outcome.value) = 4
        /\ z_of # NoneVal => outcome.value[4] = ExpectedContributions

\* C8: no call raises to its caller, the hosting application's call with the
\* revenue-shock argument included; without a score the category is an error
\* string.
C8_NeverRaises ==
    pc = "called" =>
        /\ ~outcome.raised
        /\ z_of = NoneVal => risk_of \notin Zones

(***************************************************************************)
(* Properties of the freshness check (SpecFresh)                           *)
(***************************************************************************)
\* the label is a date: a naive Timestamp, or a string that parses to one
LabelIsDate == balance_sheet.label.kind \in {"timestamp", "string"}

\* now - filing_date, in ticks
Elapsed == now - balance_sheet.label.t

\* C10: check_data_freshness returns (True, None, a no-data warning) without
\* filing data and (True, None, a parse-failure warning) for a date it cannot
\* handle; otherwise filing_date is the formatted day of the filing, is_stale
\* holds exactly when now - filing_date exceeds 540 days (exactly 540 days is
\* not stale), and the warning is there exactly when is_stale holds.
C10_Freshness ==
    pc = "checked" =>
        /\ Len(fresh) = 3
        /\ (balance_sheet.isNone \/ balance_sheet.empty) =>
              (fresh[1] = TRUE /\ fresh[2].isNone /\ fresh[3].kind = "no_data")
        /\ (~balance_sheet.isNone /\ ~balance_sheet.empty /\ ~LabelIsDate) =>
              (fresh[1] = TRUE /\ fresh[2].isNone
                 /\ fresh[3].kind = "could_not_determine")
        /\ (~balance_sheet.isNone /\ ~balance_sheet.empty /\ LabelIsDate) =>
              /\ ~fresh[2].isNone
              /\ fresh[2].day * TicksPerDay <= balance_sheet.label.t
              /\ balance_sheet.label.t < (fresh[2].day + 1) * TicksPerDay
              /\ fresh[1] <=> (Elapsed > 540 * TicksPerDay)
              /\ (fresh[3].kind # "none") <=> fresh[1]
              /\ fresh[1] => fresh[3] = [kind |-> "stale", date |-> fresh[2]]

C10_Witness ==
    /\ pc = "checked"
    /\ ~balance_sheet.isNone /\ ~balance_sheet.empty /\ LabelIsDate
    /\ Elapsed = 540 * TicksPerDay
    /\ fresh[1] = FALSE
    /\ fresh[3] = NoWarning

(***************************************************************************)
(* Properties of the application loop (Spec)                               *)
(***************************************************************************)
\* the run of the script is over
RunOver == pc \in {"done", "aborted"}

\* C9: one ticker's failure never aborts the others: when fetching or scoring
\* fails for a ticker, a message for that ticker is shown and every later
\* ticker is still processed, so the run ends only after the loop has gone
\* through every ticker.
C9_FailureDoesNotAbort ==
    RunOver =>
        \A i \in 1..Len(tickers) :
            \/ i < idx
            \/ i = idx /\ pc = "aborted"

(***************************************************************************)
(* Properties of normalize_units (SpecNorm)                                *)
(***************************************************************************)
\* float(value) exists: the value is a number, or converts to one
Convertible(value) == value.k \in {"num", "nan"}

\* C11: normalize_units raises for no input; it returns None for None and for
\* a value that does not convert to a number, and otherwise the value
\* divided by 1e6 for the scale million and by 1e9 for the scale billion.
C11_NormalizeUnits ==
    pc = "normalized" =>
        /\ ~outcome.raised
        /\ (IsNone(raw_value) \/ ~Convertible(raw_value))
              => outcome.value = <<NoneVal>>
        /\ raw_value = NaN => outcome.value = <<NaN>>
        /\ IsNum(raw_value) =>
              outcome.value
                = <<Rat(raw_value.n,
                        raw_value.d * (IF scale = "M" THEN 1000000
                                       ELSE 1000000000))>>

(***************************************************************************)
(* Properties of get_financial_data (SpecFetch)                            *)
(***************************************************************************)
\* the balance sheet has the line (its value may be zero or NaN)
HasLine(line) == line \in DOMAIN answer.bs_lines

\* a raw amount in millions; None stays None and NaN stays NaN
InMillions(v) == IF IsNum(v) THEN Rat(v.n, v.d * 1000000) ELSE v

\* the raw value of the preferred line when the sheet has it, else of the
\* fallback line, None when it has neither
Preferred(line, fallback) ==
    IF HasLine(line) THEN answer.bs_lines[line]
    ELSE IF HasLine(fallback) THEN answer.bs_lines[fallback]
    ELSE NoneVal

\* Total Current Assets - Total Current Liabilities, in millions
DifferenceInMillions ==
    LET tca == answer.bs_lines["Total Current Assets"]
        tcl == answer.bs_lines["Total Current Liabilities"]
    IN  IF tca = NaN \/ tcl = NaN THEN NaN
        ELSE Rat(tca.n - tcl.n, 1000000)

Assembled == pc = "assembled" /\ ~data.isNone

\* C12 (working capital): current assets minus current liabilities when the
\* sheet has both, otherwise its "Working Capital" line.
C12_WorkingCapitalSource ==
    Assembled =>
        data.fields["Working Capital"]
          = IF HasLine("Total Current Assets") /\ HasLine("Total Current Liabilities")
            THEN DifferenceInMillions
            ELSE IF HasLine("Working Capital")
            THEN InMillions(answer.bs_lines["Working Capital"])
            ELSE NoneVal

\* C12: every metric with a preferred and a fallback source takes the
\* preferred one whenever the sheet has it, a value of 0 included, and the
\* fallback only when the preferred one is absent: working capital as above,
\* Total Liabilities from "Total Liabilities Net Minority Interest" before
\* "Total Liabilities", Book Value of Equity from "Stockholders Equity"
\* before "Total Equity Gross Minority Interest".
C12_PreferredSource ==
    Assembled =>
        /\ C12_WorkingCapitalSource
        /\ data.fields["Total Liabilities"]
             = InMillions(Preferred("Total Liabilities Net Minority Interest",
                                    "Total Liabilities"))
        /\ data.fields["Book Value of Equity"]
             = InMillions(Preferred("Stockholders Equity",
                                    "Total Equity Gross Minority Interest"))

\* the preferred line of liabilities or of equity is there with the value 0
PreferredIsZero ==
    \/ HasLine("Total Liabilities Net Minority Interest")
         /\ answer.bs_lines["Total Liabilities Net Minority Interest"] = Num(0)
    \/ HasLine("Stockholders Equity")
         /\ answer.bs_lines["Stockholders Equity"] = Num(0)

\* the preference of C12 holds of every sheet whose preferred lines are not 0
C12_PreferredSourceUnlessZero == PreferredIsZero \/ C12_PreferredSource

(***************************************************************************)
(* Independence of the branches from the fields they do not use            *)
(* (SpecScore)                                                             *)
(***************************************************************************)
\* the dict with the key set to the value v, or without the key for
\* v = AbsentLine
WithField(dt, key, v) ==
    IF v = AbsentLine
    THEN [dt EXCEPT !.fields = [f \in DOMAIN dt.fields \ {key} |-> dt.fields[f]]]
    ELSE [dt EXCEPT !.fields = [f \in DOMAIN dt.fields \cup {key} |->
                                   IF f = key THEN v ELSE dt.fields[f]]]

RevenueVariants == TotalRevenueVals \cup {AbsentLine}

MarketValueVariants == MarketValueVals \cup {AbsentLine}

BookValueVariants == BookValueVals \cup {AbsentLine}

\* C13: on the Z'' branch the result depends neither on total_revenue nor on
\* market_value_equity nor on the revenue-shock percentage: every call on a
\* snapshot that differs in nothing else, with any shock percentage, returns
\* the (z_score, risk_category, formula_used) of this one; on the Z branch
\* the same holds of book_value_equity.
C13_UnusedFieldsAndShock ==
    (pc = "called" /\ ~data.isNone /\ data.hasMeta) =>
        /\ ~outcome.raised
        /\ SectorIsNonManufacturing =>
              \A rev \in RevenueVariants, mve \in MarketValueVariants,
                 s \in ShockChoices :
                  LET other == Call(WithField(WithField(data, "Total Revenue", rev),
                                              "Market Value of Equity", mve),
                                    Kwarg(s))
                  IN  /\ ~other.raised
                      /\ SubSeq(other.value, 1, 3) = SubSeq(outcome.value, 1, 3)
        /\ ~SectorIsNonManufacturing =>
              \A bve \in BookValueVariants :
                  calculate_altman_z_score(
                      WithField(data, "Book Value of Equity", bve))
                    = SubSeq(outcome.value, 1, 3)

\* the part of C13 that is about the fields alone, for the call without a
\* shock argument: on the Z'' branch the result is that of every snapshot
\* that differs only in total_revenue and market_value_equity, on the Z
\* branch that of every snapshot that differs only in book_value_equity
C13_UnusedFields ==
    (HasResult /\ ~shock.given /\ ~data.isNone /\ data.hasMeta) =>
        /\ SectorIsNonManufacturing =>
              \A rev \in RevenueVariants, mve \in MarketValueVariants :
                  calculate_altman_z_score(
                      WithField(WithField(data, "Total Revenue", rev),
                                "Market Value of Equity", mve))
                    = outcome.value
        /\ ~SectorIsNonManufacturing =>
              \A bve \in BookValueVariants :
                  calculate_altman_z_score(
                      WithField(data, "Book Value of Equity", bve))
                    = outcome.value

====
